---- MODULE Spec2Model ----
(***************************************************************************)
(* Emmental and Mascarpone: the execution cores of the two interpreters.   *)
(*                                                                         *)
(* Mascarpone (src/mascarpone/src): a heterogeneous stack of elements, a   *)
(* current interpreter, and the intrinsic operations, driven one symbol at *)
(* a time by State::execute.                                               *)
(* Emmental (src/src/lib.rs): a byte stack, a byte queue, a symbol table   *)
(* and the primitive operations, driven by State::run.                     *)
(*                                                                         *)
(* Representation.  A Mascarpone symbol is a one-character string, an      *)
(* Emmental symbol a number in 0..255.  A Rust Result is a record with an  *)
(* err field ("Ok" or the Error variant's name); a panic (todo!(), a       *)
(* failed expect) is the status "panic".  The payload of                   *)
(* Element::Interpreter is written Option<Interpreter> in state.rs and     *)
(* Interpreter in every place that pushes one; the absent value None and   *)
(* Interpreter::Null are one value here, NullInterp.                       *)
(***************************************************************************)
EXTENDS Naturals, Sequences, FiniteSets, TLC

VARIABLES
    stack,        \* Mascarpone State.stack: sequence of elements, top last
    interpreter,  \* Mascarpone State.interpreter: the current interpreter
    output,       \* Mascarpone io.output: symbols written so far
    status,       \* "ok" while State::execute runs, else the error / "panic"
    dispatched,   \* symbols State::execute has dispatched so far
    e_program,    \* Emmental: the program buffer given to run_with_io
    e_calls,      \* Emmental: the activations of State::run, innermost last,
                  \*   each a Program [contents, position]
    e_stack,      \* Emmental State.stack: sequence of bytes, top last
    e_queue,      \* Emmental State.queue: front first
    e_interpreter,\* Emmental State.interpreter.map: symbol -> Operation
    e_input,      \* Emmental StringIO.input: bytes not yet read
    e_output,     \* Emmental StringIO.output: bytes written so far
    e_status,     \* "idle" | "running" | "done" | the error message
    e_dispatched, \* Emmental: symbols the outermost State::run has dispatched
    arg,          \* string round trip: the argument of push_string
    result,       \* string round trip: what pop_string returned
    phase         \* "run" | "start" | "pushed" | "popped" | "ops" | "emmental"

mvars == <<stack, interpreter, output, status, dispatched>>

svars == <<arg, result, phase>>

evars == <<e_program, e_calls, e_stack, e_queue, e_interpreter, e_input, e_output,
           e_status, e_dispatched>>

vars == <<mvars, svars, evars>>

Front(s) == SubSeq(s, 1, Len(s) - 1)

Last(s) == s[Len(s)]

RECURSIVE Reverse(_)
Reverse(s) == IF s = <<>> THEN <<>> ELSE Append(Reverse(Tail(s)), Head(s))

(* All sequences over S of length at most n. *)
RECURSIVE SeqsUpTo(_, _)
SeqsUpTo(S, n) ==
    IF n = 0 THEN {<<>>}
    ELSE LET shorter == SeqsUpTo(S, n - 1)
         IN  shorter \cup {Append(s, x) : s \in {t \in shorter : Len(t) = n - 1}, x \in S}

IsPrefix(p, s) == Len(p) <= Len(s) /\ SubSeq(s, 1, Len(p)) = p

(***************************************************************************)
(* Mascarpone: data model                                                  *)
(***************************************************************************)

STRING_LEFT_DELIM == "["

STRING_RIGHT_DELIM == "]"

(* Intrinsic::SYMBOLS with the symbol of Dup typed for Swap as well. *)
SYMBOLS_swap_typo ==
    << <<"Reify", "v">>, <<"Deify", "^">>, <<"Extract", ">">>,
       <<"Install", "<">>, <<"GetParent", "{">>, <<"SetParent", "}">>,
       <<"Create", "*">>, <<"Expand", "@">>, <<"Perform", "!">>,
       <<"Null", "0">>, <<"Uniform", "1">>, <<"QuoteString", "[">>,
       <<"QuoteSymbol", "'">>, <<"Output", ".">>, <<"Input", ",">>,
       <<"Dup", ":">>, <<"Discard", "$">>, <<"Swap", ":">> >>

(* Intrinsic::SYMBOLS: the 18 (intrinsic, symbol) pairs, in table order. *)
SYMBOLS ==
    << <<"Reify", "v">>, <<"Deify", "^">>, <<"Extract", ">">>,
       <<"Install", "<">>, <<"GetParent", "{">>, <<"SetParent", "}">>,
       <<"Create", "*">>, <<"Expand", "@">>, <<"Perform", "!">>,
       <<"Null", "0">>, <<"Uniform", "1">>, <<"QuoteString", "[">>,
       <<"QuoteSymbol", "'">>, <<"Output", ".">>, <<"Input", ",">>,
       <<"Dup", ":">>, <<"Discard", "$">>, <<"Swap", "/">> >>

(* Option::None of from_symbol / to_symbol. *)
NoneValue == "None"

Min(S) == CHOOSE m \in S : \A k \in S : m <= k

(* Intrinsic::from_symbol: the first table entry whose symbol is sym. *)
from_symbol(sym) ==
    LET hits == {i \in 1..Len(SYMBOLS) : SYMBOLS[i][2] = sym}
    IN  IF hits = {} THEN NoneValue ELSE SYMBOLS[Min(hits)][1]

(* Intrinsic::to_symbol without its expect: the first table entry whose
   intrinsic is op, None when there is none (NoOp). *)
to_symbol(op) ==
    LET hits == {i \in 1..Len(SYMBOLS) : SYMBOLS[i][1] = op}
    IN  IF hits = {} THEN NoneValue ELSE SYMBOLS[Min(hits)][2]

OpIntrinsic(op) == [tag |-> "Intrinsic", op |-> op]

OpProgram(body, interp) == [tag |-> "Program", body |-> body, interp |-> interp]

NullInterp == [tag |-> "Null"]

from_variant(variant) == [tag |-> "Defined", parent |-> NullInterp, variant |-> variant]

initial == from_variant([v |-> "Initial"])

quote_string == from_variant([v |-> "QuoteString"])

quote_symbol == from_variant([v |-> "QuoteSymbol"])

uniform(op) == from_variant([v |-> "Mapping", mapping |-> <<>>, default |-> op])

(* HashMap::insert on a table kept as a function from its keys. *)
MapInsert(m, k, x) == [z \in (DOMAIN m) \cup {k} |-> IF z = k THEN x ELSE m[z]]

(* Operation::intrinsic_mapping: collecting (sym, Intrinsic(op)) in table
   order, a later entry of the same symbol overwriting an earlier one. *)
RECURSIVE intrinsic_mapping_upto(_)
intrinsic_mapping_upto(n) ==
    IF n = 0 THEN <<>>
    ELSE MapInsert(intrinsic_mapping_upto(n - 1), SYMBOLS[n][2], OpIntrinsic(SYMBOLS[n][1]))

intrinsic_mapping == intrinsic_mapping_upto(Len(SYMBOLS))

(* Interpreter::set_parent: a Null interpreter is left alone. *)
set_parent(interp, new_parent) ==
    IF interp.tag = "Defined" THEN [interp EXCEPT !.parent = new_parent] ELSE interp

ElemSymbol(s) == [tag |-> "Symbol", sym |-> s]

ElemOperation(o) == [tag |-> "Operation", op |-> o]

ElemInterpreter(i) == [tag |-> "Interpreter", interp |-> i]

(* State::new. *)
NewState == [stack |-> <<>>, interpreter |-> initial, output |-> <<>>, status |-> "ok"]

(* A Result<T>: the state left behind, the error ("Ok" when none) and the value. *)
Res(st, err, val) == [st |-> st, err |-> err, val |-> val]

Fail(st, err) == [st EXCEPT !.status = err]

(***************************************************************************)
(* Mascarpone: the stack of State                                          *)
(***************************************************************************)

push_element(st, elem) == [st EXCEPT !.stack = Append(st.stack, elem)]

pop_element(st) ==
    IF st.stack = <<>>
    THEN Res(st, "EmptyStack", NoneValue)
    ELSE Res([st EXCEPT !.stack = Front(st.stack)], "Ok", Last(st.stack))

peek_element(st) ==
    IF st.stack = <<>>
    THEN Res(st, "EmptyStack", NoneValue)
    ELSE Res(st, "Ok", Last(st.stack))

pop_interpreter_nullable(st) ==
    LET r == pop_element(st)
    IN  IF r.err # "Ok" THEN r
        ELSE IF r.val.tag = "Interpreter" THEN Res(r.st, "Ok", r.val.interp)
        ELSE Res(r.st, "WrongElementType", NoneValue)

(* pop_interpreter without the ok_or(NullInterpreter). *)
pop_interpreter_tolerant(st) == pop_interpreter_nullable(st)

pop_interpreter(st) ==
    LET r == pop_interpreter_nullable(st)
    IN  IF r.err # "Ok" THEN r
        ELSE IF r.val.tag = "Null" THEN Res(r.st, "NullInterpreter", NoneValue)
        ELSE r

pop_operation(st) ==
    LET r == pop_element(st)
    IN  IF r.err # "Ok" THEN r
        ELSE IF r.val.tag = "Operation" THEN Res(r.st, "Ok", r.val.op)
        ELSE Res(r.st, "WrongElementType", NoneValue)

pop_symbol(st) ==
    LET r == pop_element(st)
    IN  IF r.err # "Ok" THEN r
        ELSE IF r.val.tag = "Symbol" THEN Res(r.st, "Ok", r.val.sym)
        ELSE Res(r.st, "WrongElementType", NoneValue)

(* The loop of State::pop_string, pushing each symbol at the back. *)
RECURSIVE pop_string_loop_push_back(_, _, _)
pop_string_loop_push_back(st, nesting, string) ==
    LET r == pop_symbol(st)
    IN  IF r.err # "Ok" THEN r
        ELSE IF r.val = STRING_RIGHT_DELIM
             THEN pop_string_loop_push_back(r.st, nesting + 1, Append(string, r.val))
        ELSE IF r.val = STRING_LEFT_DELIM /\ nesting = 0
             THEN Res(r.st, "Ok", string)
        ELSE IF r.val = STRING_LEFT_DELIM
             THEN pop_string_loop_push_back(r.st, nesting - 1, Append(string, r.val))
        ELSE pop_string_loop_push_back(r.st, nesting, Append(string, r.val))

(* The loop of State::pop_string without the nesting count: the first '['
   met ends the string. *)
RECURSIVE pop_string_loop_flat(_, _, _)
pop_string_loop_flat(st, nesting, string) ==
    LET r == pop_symbol(st)
    IN  IF r.err # "Ok" THEN r
        ELSE IF r.val = STRING_LEFT_DELIM THEN Res(r.st, "Ok", string)
        ELSE pop_string_loop_flat(r.st, nesting, <<r.val>> \o string)

(* The loop of State::pop_string: nesting counts the unmatched right
   delimiters below the top one, string is built by push_front. *)
RECURSIVE pop_string_loop(_, _, _)
pop_string_loop(st, nesting, string) ==
    LET r == pop_symbol(st)
    IN  IF r.err # "Ok" THEN r
        ELSE IF r.val = STRING_RIGHT_DELIM
             THEN pop_string_loop(r.st, nesting + 1, <<r.val>> \o string)
        ELSE IF r.val = STRING_LEFT_DELIM /\ nesting = 0
             THEN Res(r.st, "Ok", string)
        ELSE IF r.val = STRING_LEFT_DELIM
             THEN pop_string_loop(r.st, nesting - 1, <<r.val>> \o string)
        ELSE pop_string_loop(r.st, nesting, <<r.val>> \o string)

pop_string(st) ==
    LET r == pop_symbol(st)
    IN  IF r.err # "Ok" THEN r
        ELSE IF r.val # STRING_RIGHT_DELIM THEN Res(r.st, "MalformedString", NoneValue)
        ELSE pop_string_loop(r.st, 0, <<>>)

RECURSIVE push_symbols(_, _)
push_symbols(st, symbols) ==
    IF symbols = <<>> THEN st
    ELSE push_symbols(push_element(st, ElemSymbol(Head(symbols))), Tail(symbols))

push_string(st, symbols) ==
    push_element(push_symbols(push_element(st, ElemSymbol("[")), symbols), ElemSymbol("]"))

start_quote_string(st) ==
    [st EXCEPT !.interpreter = set_parent(quote_string, st.interpreter)]

start_quote_symbol(st) ==
    [st EXCEPT !.interpreter = set_parent(quote_symbol, st.interpreter)]

(***************************************************************************)
(* Mascarpone: the interpreter value                                       *)
(***************************************************************************)

(* Interpreter::extract with unwrap_or(Intrinsic::NoOp) in the Mapping arm
   too, in place of unwrap_or(default). *)
extract_default_noop(interp, sym) ==
    IF interp.tag = "Null" THEN [err |-> "NullInterpreter", val |-> NoneValue]
    ELSE IF interp.variant.v \in {"QuoteString", "QuoteSymbol"}
         THEN [err |-> "WrongInterpreterVariant", val |-> NoneValue]
    ELSE IF interp.variant.v = "Initial"
         THEN [err |-> "Ok",
               val |-> OpIntrinsic(IF from_symbol(sym) = NoneValue
                                   THEN "NoOp" ELSE from_symbol(sym))]
    ELSE [err |-> "Ok",
          val |-> IF sym \in DOMAIN interp.variant.mapping
                  THEN interp.variant.mapping[sym]
                  ELSE OpIntrinsic("NoOp")]

(* Interpreter::extract; the Result as [err, val]. *)
extract(interp, sym) ==
    IF interp.tag = "Null" THEN [err |-> "NullInterpreter", val |-> NoneValue]
    ELSE IF interp.variant.v \in {"QuoteString", "QuoteSymbol"}
         THEN [err |-> "WrongInterpreterVariant", val |-> NoneValue]
    ELSE IF interp.variant.v = "Initial"
         THEN [err |-> "Ok",
               val |-> OpIntrinsic(IF from_symbol(sym) = NoneValue
                                   THEN "NoOp" ELSE from_symbol(sym))]
    ELSE [err |-> "Ok",
          val |-> IF sym \in DOMAIN interp.variant.mapping
                  THEN interp.variant.mapping[sym]
                  ELSE interp.variant.default]

(* Interpreter::install starting the table of an Initial interpreter from
   HashMap::new() instead of Operation::intrinsic_mapping(). *)
install_unseeded(interp, sym, op) ==
    IF interp.tag = "Null" THEN [err |-> "NullInterpreter", val |-> interp]
    ELSE IF interp.variant.v \in {"QuoteString", "QuoteSymbol"}
         THEN [err |-> "WrongInterpreterVariant", val |-> interp]
    ELSE IF interp.variant.v = "Initial"
         THEN [err |-> "Ok",
               val |-> [interp EXCEPT !.variant =
                            [v |-> "Mapping",
                             mapping |-> MapInsert(<<>>, sym, op),
                             default |-> OpIntrinsic("NoOp")]]]
    ELSE [err |-> "Ok",
          val |-> [interp EXCEPT !.variant.mapping = MapInsert(@, sym, op)]]

(* Interpreter::install; the Result as [err, val], val the interpreter after. *)
install(interp, sym, op) ==
    IF interp.tag = "Null" THEN [err |-> "NullInterpreter", val |-> interp]
    ELSE IF interp.variant.v \in {"QuoteString", "QuoteSymbol"}
         THEN [err |-> "WrongInterpreterVariant", val |-> interp]
    ELSE IF interp.variant.v = "Initial"
         THEN [err |-> "Ok",
               val |-> [interp EXCEPT !.variant =
                            [v |-> "Mapping",
                             mapping |-> MapInsert(intrinsic_mapping, sym, op),
                             default |-> OpIntrinsic("NoOp")]]]
    ELSE [err |-> "Ok",
          val |-> [interp EXCEPT !.variant.mapping = MapInsert(@, sym, op)]]

(***************************************************************************)
(* Mascarpone: operations                                                  *)
(***************************************************************************)

RECURSIVE Intrinsic_execute(_, _)
RECURSIVE Operation_execute(_, _)

(* Operation::execute: a Program operation is todo!(). *)
Operation_execute(op, st) ==
    IF op.tag = "Intrinsic" THEN Intrinsic_execute(op.op, st)
    ELSE Fail(st, "panic")

Execute_Reify(st) == push_element(st, ElemInterpreter(st.interpreter))

Execute_Deify(st) ==
    LET r == pop_interpreter(st)
    IN  IF r.err # "Ok" THEN Fail(r.st, r.err)
        ELSE [r.st EXCEPT !.interpreter = r.val]

Execute_Extract(st) ==
    LET s == pop_symbol(st)
        i == pop_interpreter(s.st)
        o == extract(i.val, s.val)
    IN  IF s.err # "Ok" THEN Fail(s.st, s.err)
        ELSE IF i.err # "Ok" THEN Fail(i.st, i.err)
        ELSE IF o.err # "Ok" THEN Fail(i.st, o.err)
        ELSE push_element(i.st, ElemOperation(o.val))

Execute_Install(st) ==
    LET s == pop_symbol(st)
        o == pop_operation(s.st)
        i == pop_interpreter(o.st)
        n == install(i.val, s.val, o.val)
    IN  IF s.err # "Ok" THEN Fail(s.st, s.err)
        ELSE IF o.err # "Ok" THEN Fail(o.st, o.err)
        ELSE IF i.err # "Ok" THEN Fail(i.st, i.err)
        ELSE IF n.err # "Ok" THEN Fail(i.st, n.err)
        ELSE push_element(i.st, ElemInterpreter(n.val))

(* Interpreter::parent of a Defined interpreter is Some(parent), a Null
   parent included; ok_or(NoParent) fails on Interpreter::Null only, which
   pop_interpreter has already refused. *)
Execute_GetParent(st) ==
    LET i == pop_interpreter(st)
    IN  IF i.err # "Ok" THEN Fail(i.st, i.err)
        ELSE IF i.val.tag = "Null" THEN Fail(i.st, "NoParent")
        ELSE push_element(i.st, ElemInterpreter(i.val.parent))

(* SetParent on interpreters held by shared reference: every other element
   holding the interpreter that is changed shows the change too. *)
Execute_SetParent_shared(st) ==
    LET i == pop_interpreter(st)
        p == pop_interpreter(i.st)
    IN  IF i.err # "Ok" THEN Fail(i.st, i.err)
        ELSE IF p.err # "Ok" THEN Fail(p.st, p.err)
        ELSE push_element(
                 [p.st EXCEPT !.stack =
                     [n \in 1..Len(p.st.stack) |->
                         IF p.st.stack[n] = ElemInterpreter(i.val)
                         THEN ElemInterpreter(set_parent(i.val, p.val))
                         ELSE p.st.stack[n]]],
                 ElemInterpreter(set_parent(i.val, p.val)))

Execute_SetParent(st) ==
    LET i == pop_interpreter(st)
        p == pop_interpreter(i.st)
    IN  IF i.err # "Ok" THEN Fail(i.st, i.err)
        ELSE IF p.err # "Ok" THEN Fail(p.st, p.err)
        ELSE push_element(p.st, ElemInterpreter(set_parent(i.val, p.val)))

Execute_Create(st) ==
    LET i == pop_interpreter(st)
        b == pop_string(i.st)
    IN  IF i.err # "Ok" THEN Fail(i.st, i.err)
        ELSE IF b.err # "Ok" THEN Fail(b.st, b.err)
        ELSE push_element(b.st, ElemOperation(OpProgram(b.val, i.val)))

Execute_Expand(st) ==
    LET o == pop_operation(st)
    IN  IF o.err # "Ok" THEN Fail(o.st, o.err)
        ELSE IF o.val.tag = "Intrinsic"
             THEN IF to_symbol(o.val.op) = NoneValue
                  THEN Fail(o.st, "panic")
                  ELSE push_element(push_string(o.st, <<to_symbol(o.val.op)>>),
                                    ElemInterpreter(initial))
        ELSE push_element(push_string(o.st, o.val.body), ElemInterpreter(o.val.interp))

Execute_Perform(st) ==
    LET o == pop_operation(st)
    IN  IF o.err # "Ok" THEN Fail(o.st, o.err)
        ELSE Operation_execute(o.val, o.st)

Execute_Null(st) == push_element(st, ElemInterpreter(NullInterp))

Execute_Uniform(st) ==
    LET o == pop_operation(st)
    IN  IF o.err # "Ok" THEN Fail(o.st, o.err)
        ELSE push_element(o.st, ElemInterpreter(uniform(o.val)))

Execute_QuoteString(st) ==
    push_element(push_element(st, ElemSymbol(STRING_LEFT_DELIM)),
                 ElemInterpreter(quote_string))

Execute_QuoteSymbol(st) == push_element(st, ElemInterpreter(quote_symbol))

(* Input and Output are todo!(). *)
Execute_Input(st) == Fail(st, "panic")

Execute_Output(st) == Fail(st, "panic")

Execute_Dup(st) ==
    LET e == peek_element(st)
    IN  IF e.err # "Ok" THEN Fail(e.st, e.err)
        ELSE push_element(st, e.val)

Execute_Discard(st) ==
    LET e == pop_element(st)
    IN  IF e.err # "Ok" THEN Fail(e.st, e.err) ELSE e.st

Execute_Swap(st) ==
    LET a == pop_element(st)
        b == pop_element(a.st)
    IN  IF a.err # "Ok" THEN Fail(a.st, a.err)
        ELSE IF b.err # "Ok" THEN Fail(b.st, b.err)
        ELSE push_element(push_element(b.st, a.val), b.val)

(* Intrinsic::execute. *)
Intrinsic_execute(op, st) ==
    CASE op = "Reify" -> Execute_Reify(st)
      [] op = "Deify" -> Execute_Deify(st)
      [] op = "Extract" -> Execute_Extract(st)
      [] op = "Install" -> Execute_Install(st)
      [] op = "GetParent" -> Execute_GetParent(st)
      [] op = "SetParent" -> Execute_SetParent(st)
      [] op = "Create" -> Execute_Create(st)
      [] op = "Expand" -> Execute_Expand(st)
      [] op = "Perform" -> Execute_Perform(st)
      [] op = "Null" -> Execute_Null(st)
      [] op = "Uniform" -> Execute_Uniform(st)
      [] op = "QuoteString" -> Execute_QuoteString(st)
      [] op = "QuoteSymbol" -> Execute_QuoteSymbol(st)
      [] op = "Input" -> Execute_Input(st)
      [] op = "Output" -> Execute_Output(st)
      [] op = "Dup" -> Execute_Dup(st)
      [] op = "Discard" -> Execute_Discard(st)
      [] op = "Swap" -> Execute_Swap(st)
      [] op = "NoOp" -> st

(* Interpreter::interpret whose QuoteString arm pushes '[' without calling
   start_quote_string. *)
interpret_quote_flat(self, sym, st) ==
    IF self.tag = "Null" THEN Fail(st, "NullInterpreter")
    ELSE IF self.variant.v = "QuoteString"
         THEN LET pushed == push_element(st, ElemSymbol(sym))
              IN  IF sym = STRING_RIGHT_DELIM
                  THEN [pushed EXCEPT !.interpreter = self.parent]
                  ELSE pushed
    ELSE IF self.variant.v = "QuoteSymbol"
         THEN [push_element(st, ElemSymbol(sym)) EXCEPT !.interpreter = self.parent]
    ELSE IF self.variant.v = "Initial"
         THEN Intrinsic_execute(IF from_symbol(sym) = NoneValue
                                THEN "NoOp" ELSE from_symbol(sym), st)
    ELSE Operation_execute(IF sym \in DOMAIN self.variant.mapping
                           THEN self.variant.mapping[sym]
                           ELSE self.variant.default, st)

(* Interpreter::interpret, self being a clone of the current interpreter.
   parent().expect(..) cannot fail on a Defined interpreter: parent() is
   Some(parent) there even when the parent is Interpreter::Null. *)
interpret(self, sym, st) ==
    IF self.tag = "Null" THEN Fail(st, "NullInterpreter")
    ELSE IF self.variant.v = "QuoteString"
         THEN LET pushed == push_element(st, ElemSymbol(sym))
              IN  IF sym = STRING_RIGHT_DELIM
                  THEN [pushed EXCEPT !.interpreter = self.parent]
                  ELSE IF sym = STRING_LEFT_DELIM
                  THEN start_quote_string(pushed)
                  ELSE pushed
    ELSE IF self.variant.v = "QuoteSymbol"
         THEN [push_element(st, ElemSymbol(sym)) EXCEPT !.interpreter = self.parent]
    ELSE IF self.variant.v = "Initial"
         THEN Intrinsic_execute(IF from_symbol(sym) = NoneValue
                                THEN "NoOp" ELSE from_symbol(sym), st)
    ELSE Operation_execute(IF sym \in DOMAIN self.variant.mapping
                           THEN self.variant.mapping[sym]
                           ELSE self.variant.default, st)

(* The Emmental variables of a run of Mascarpone alone. *)
EmmentalIdle ==
    /\ e_program = <<>>
    /\ e_calls = <<>>
    /\ e_stack = <<>>
    /\ e_queue = <<>>
    /\ e_interpreter = <<>>
    /\ e_input = <<>>
    /\ e_output = <<>>
    /\ e_status = "idle"
    /\ e_dispatched = <<>>

(***************************************************************************)
(* Mascarpone: State::execute, one dispatched symbol per step              *)
(***************************************************************************)

(* Longest program explored symbol by symbol over the whole Alphabet. *)
MaxProgLen == 4

(* The symbols programs are drawn from: the 18 of the intrinsic table, the
   right delimiter and a symbol bound to nothing. *)
Alphabet == {SYMBOLS[i][2] : i \in 1..Len(SYMBOLS)} \cup {STRING_RIGHT_DELIM, "a"}

(* Programs of the scenarios, run beyond MaxProgLen. *)
ProgQuoteABC == <<"[", "a", "b", "c", "]">>

ProgQuoteNested ==
    <<"[", "o", "[", "l", "l", "]", "e", "h", "]",
      ".", ".", ".", ".", ".", ".", ".", ".", ".">>

ProgQuoteAB == <<"[", "A", "]", "'", "B", ".">>

ProgPerformProgram == <<"v", "[", "$", ">", "@", "*", "!">>

(* [v/}^ makes a QuoteString interpreter whose parent is the Initial one
   current (QuoteString pushes '[' and the interpreter, Reify, Swap,
   SetParent, Deify); then [a]] is fed to it and v to the Initial one. *)
EnterQuoteWithParent == <<"[", "v", "/", "}", "^">>

ProgQuoteViaDeify == EnterQuoteWithParent \o <<"[", "a", "]", "]", "v">>

(* [^ makes a QuoteString interpreter without parent current. *)
EnterQuoteNoParent == <<"[", "^">>

(* v[$>1^ makes the uniform interpreter of Intrinsic(QuoteString) current
   (Reify, QuoteString, Discard, Extract, Uniform, Deify); then 'a'. *)
ProgDeifyUniform == <<"v", "[", "$", ">", "1", "^", "a">>

(* vvv[$>[$< : Reify three times, Extract of '[' from the third copy, the
   symbol '[' on top, and Install into the second copy. *)
ProgSnapshotInstall == <<"v", "v", "v", "[", "$", ">", "[", "$", "<">>

(* v[$>@*vv} : Create captures the Initial interpreter in a Program, then
   SetParent changes another copy of it. *)
ProgSnapshotCreate == <<"v", "[", "$", ">", "@", "*", "v", "v", "}">>

(* v[$>@/>@ : Expand of Intrinsic(QuoteString) leaves '[' '[' ']' and the
   Initial interpreter, Swap puts ']' on top of it, Extract of the unbound
   ']' pushes Intrinsic(NoOp), and Expand is executed on it. *)
ProgExpandNoOp == <<"v", "[", "$", ">", "@", "/", ">", "@">>

ScenarioPrograms ==
    {ProgExpandNoOp, ProgSnapshotInstall, ProgSnapshotCreate, ProgQuoteABC, ProgQuoteNested, ProgQuoteAB, ProgPerformProgram, ProgQuoteViaDeify,
     ProgDeifyUniform}

MayDispatch(sym) ==
    \/ Len(dispatched) < MaxProgLen /\ sym \in Alphabet
    \/ \E p \in ScenarioPrograms : IsPrefix(Append(dispatched, sym), p)

CurrentState ==
    [stack |-> stack, interpreter |-> interpreter, output |-> output, status |-> status]

(* The loop of State::execute with the interpreter cloned once, before the
   loop: every symbol goes through the interpreter of State::new. *)
Dispatch_cached(sym) ==
    /\ phase = "run"
    /\ status = "ok"
    /\ MayDispatch(sym)
    /\ LET r == interpret(NewState.interpreter, sym, CurrentState)
       IN  /\ stack' = r.stack
           /\ interpreter' = r.interpreter
           /\ output' = r.output
           /\ status' = r.status
    /\ dispatched' = Append(dispatched, sym)
    /\ UNCHANGED <<svars, evars>>

(* One iteration of the loop of State::execute: the current interpreter is
   cloned and interprets sym; an error or a panic ends the run. *)
Dispatch(sym) ==
    /\ phase = "run"
    /\ status = "ok"
    /\ MayDispatch(sym)
    /\ LET r == interpret(interpreter, sym, CurrentState)
       IN  /\ stack' = r.stack
           /\ interpreter' = r.interpreter
           /\ output' = r.output
           /\ status' = r.status
    /\ dispatched' = Append(dispatched, sym)
    /\ UNCHANGED <<svars, evars>>

Execute == \E sym \in Alphabet \cup {"b", "c", "o", "l", "e", "h", "A", "B"} : Dispatch(sym)

Init ==
    /\ stack = NewState.stack
    /\ interpreter = NewState.interpreter
    /\ output = NewState.output
    /\ status = NewState.status
    /\ dispatched = <<>>
    /\ arg = <<>>
    /\ result = <<>>
    /\ phase = "run"
    /\ EmmentalIdle

Next == Execute

Spec == Init /\ [][Next]_vars

(***************************************************************************)
(* Mascarpone: push_string then pop_string on a fresh State                *)
(***************************************************************************)

(* Longest argument of push_string. *)
MaxStrLen == 3

StrSymbols == {"a", "b", STRING_LEFT_DELIM, STRING_RIGHT_DELIM}

(* What lies on the stack before push_string is called. *)
StringBases ==
    {NewState.stack,
     <<ElemSymbol(STRING_LEFT_DELIM)>>,
     <<ElemSymbol("a"), ElemSymbol(STRING_RIGHT_DELIM)>>,
     <<ElemInterpreter(initial)>>}

InitString ==
    /\ stack \in StringBases
    /\ interpreter = NewState.interpreter
    /\ output = NewState.output
    /\ status = NewState.status
    /\ dispatched = <<>>
    /\ arg \in SeqsUpTo(StrSymbols, MaxStrLen)
    /\ result = <<>>
    /\ phase = "start"
    /\ EmmentalIdle

PushString ==
    /\ phase = "start"
    /\ stack' = push_string(CurrentState, arg).stack
    /\ phase' = "pushed"
    /\ UNCHANGED <<interpreter, output, status, dispatched, arg, result, evars>>

PopString ==
    /\ phase = "pushed"
    /\ LET r == pop_string(CurrentState)
       IN  /\ stack' = r.st.stack
           /\ status' = IF r.err = "Ok" THEN "ok" ELSE r.err
           /\ result' = r.val
    /\ phase' = "popped"
    /\ UNCHANGED <<interpreter, output, dispatched, arg, evars>>

NextString == PushString \/ PopString

SpecString == InitString /\ [][NextString]_vars

(***************************************************************************)
(* Mascarpone: the typed pops and the intrinsics on a given stack          *)
(***************************************************************************)

(* Most elements lying below the ones an operation works on. *)
MaxBase == 1

(* Longest run of symbols on top of a given stack. *)
MaxRawLen == 4

(* Most intrinsics executed one after the other on a given stack. *)
MaxOps == 2

(* A Mapping interpreter with one more binding than the intrinsic table. *)
MappingInterp ==
    [tag |-> "Defined", parent |-> initial,
     variant |-> [v |-> "Mapping",
                  mapping |-> MapInsert(intrinsic_mapping, "a", OpIntrinsic("Swap")),
                  default |-> OpIntrinsic("NoOp")]]

OpsInterpreters ==
    {NullInterp, initial, quote_string, uniform(OpIntrinsic("Dup")),
     set_parent(initial, quote_symbol), MappingInterp}

OpsOperations ==
    {OpIntrinsic("Dup"), OpIntrinsic("NoOp"), OpIntrinsic("QuoteString"),
     OpProgram(<<"a", "b">>, initial), OpProgram(<<"[", "a", "]">>, quote_string)}

RawSymbols == {"a", STRING_LEFT_DELIM, STRING_RIGHT_DELIM}

OpsElements ==
    {ElemInterpreter(i) : i \in OpsInterpreters}
        \cup {ElemOperation(o) : o \in OpsOperations}
        \cup {ElemSymbol(x) : x \in RawSymbols}

(* The elements on top: nothing, one element, the operands of Extract and of
   Install, and a run of symbols with or without an interpreter above it. *)
OpsTops ==
    {<<>>}
        \cup {<<e>> : e \in OpsElements}
        \cup {<<ElemInterpreter(i), ElemSymbol(x)>> :
                 i \in OpsInterpreters, x \in Alphabet \cup {"b"}}
        \cup {<<ElemInterpreter(i), ElemOperation(o), ElemSymbol(x)>> :
                 i \in OpsInterpreters, o \in OpsOperations, x \in RawSymbols}
        \cup {[k \in 1..Len(w) |-> ElemSymbol(w[k])] : w \in SeqsUpTo(RawSymbols, MaxRawLen)}
        \cup {Append([k \in 1..Len(w) |-> ElemSymbol(w[k])], ElemInterpreter(i)) :
                 w \in SeqsUpTo(RawSymbols, MaxRawLen), i \in {initial, quote_string}}

OpsBases == SeqsUpTo({ElemSymbol("b"), ElemOperation(OpIntrinsic("Dup"))}, MaxBase)

OpsStacks == {b \o t : b \in OpsBases, t \in OpsTops}

(* The intrinsics executed on the given stacks. *)
OpsIntrinsics == {"Extract", "Install", "GetParent", "Create", "Expand", "Uniform"}

(* A State whose stack holds the given elements. *)
InitOps ==
    /\ stack \in OpsStacks
    /\ interpreter = NewState.interpreter
    /\ output = NewState.output
    /\ status = NewState.status
    /\ dispatched = <<>>
    /\ arg = stack
    /\ result = <<>>
    /\ phase = "ops"
    /\ EmmentalIdle

(* Intrinsic::execute of op on the state; dispatched records its symbol. *)
Apply(op) ==
    /\ phase = "ops"
    /\ status = "ok"
    /\ Len(dispatched) < MaxOps
    /\ LET r == Intrinsic_execute(op, CurrentState)
       IN  /\ stack' = r.stack
           /\ interpreter' = r.interpreter
           /\ output' = r.output
           /\ status' = r.status
    /\ dispatched' = Append(dispatched, to_symbol(op))
    /\ UNCHANGED <<svars, evars>>

ApplyIntrinsic == \E op \in OpsIntrinsics : Apply(op)

(* One of the typed pops called on the state: result keeps what it returned. *)
TypedPop(fn, r) ==
    /\ phase = "ops"
    /\ status = "ok"
    /\ stack' = r.st.stack
    /\ status' = IF r.err = "Ok" THEN "ok" ELSE r.err
    /\ result' = [fn |-> fn, err |-> r.err, val |-> r.val]
    /\ phase' = "popped"
    /\ UNCHANGED <<interpreter, output, dispatched, arg, evars>>

PopSymbol == TypedPop("pop_symbol", pop_symbol(CurrentState))

PopOperation == TypedPop("pop_operation", pop_operation(CurrentState))

PopInterpreter == TypedPop("pop_interpreter", pop_interpreter(CurrentState))

PopInterpreterNullable ==
    TypedPop("pop_interpreter_nullable", pop_interpreter_nullable(CurrentState))

PopStringOfStack == TypedPop("pop_string", pop_string(CurrentState))

NextOps ==
    \/ ApplyIntrinsic
    \/ PopSymbol
    \/ PopOperation
    \/ PopInterpreter
    \/ PopInterpreterNullable
    \/ PopStringOfStack

SpecOps == InitOps /\ [][NextOps]_vars

(***************************************************************************)
(* Emmental: data model (src/src/lib.rs)                                   *)
(***************************************************************************)

Primitive(primop) == [tag |-> "Primitive", primop |-> primop]

EProgram(body) == [tag |-> "Program", body |-> body]

ENoOp == [tag |-> "NoOp"]

PrimOp(name) == [p |-> name, d |-> 0]

Digit(d) == [p |-> "Digit", d |-> d]

DIGIT_OFFSET == 48

(* The non-digit entries of Interpreter::default, keyed by byte:
   # + - ~ . , ^ v : ! ? ;  *)
DefaultRest ==
    << <<35, "Nul">>, <<43, "Add">>, <<45, "Sub">>, <<126, "Log2">>,
       <<46, "Output">>, <<44, "Input">>, <<94, "Enqueue">>, <<118, "Dequeue">>,
       <<58, "Duplicate">>, <<33, "Supplant">>, <<63, "Eval">>, <<59, "Semicolon">> >>

(* Interpreter::default: the ten digits chained with the rest. *)
DefaultInterpreter ==
    [sym \in (DIGIT_OFFSET..(DIGIT_OFFSET + 9)) \cup {DefaultRest[i][1] : i \in 1..Len(DefaultRest)} |->
        IF sym \in DIGIT_OFFSET..(DIGIT_OFFSET + 9)
        THEN Primitive(Digit(sym - DIGIT_OFFSET))
        ELSE Primitive(PrimOp(DefaultRest[CHOOSE i \in 1..Len(DefaultRest) : DefaultRest[i][1] = sym][2]))]

(* Interpreter::lookup. *)
lookup(map, sym) == IF sym \in DOMAIN map THEN map[sym] ELSE ENoOp

(* Interpreter::supplant. *)
supplant(map, sym, op) == MapInsert(map, sym, op)

(* Program::new. *)
Program_new(contents) == [contents |-> contents, position |-> 0]

(* Stack::pop_string: the bytes above the topmost terminator, in push
   order; the stack is emptied when there is no terminator. *)
RECURSIVE Stack_pop_string_loop_push_back(_, _, _)
Stack_pop_string_loop_push_back(storage, terminator, string) ==
    IF storage = <<>>
    THEN [err |-> "prematurely terminated string", storage |-> storage, val |-> <<>>]
    ELSE IF Last(storage) = terminator
         THEN [err |-> "Ok", storage |-> Front(storage), val |-> string]
         ELSE Stack_pop_string_loop_push_back(Front(storage), terminator,
                                              Append(string, Last(storage)))

RECURSIVE Stack_pop_string_loop(_, _, _)
Stack_pop_string_loop(storage, terminator, string) ==
    IF storage = <<>>
    THEN [err |-> "prematurely terminated string", storage |-> storage, val |-> <<>>]
    ELSE IF Last(storage) = terminator
         THEN [err |-> "Ok", storage |-> Front(storage), val |-> string]
         ELSE Stack_pop_string_loop(Front(storage), terminator, <<Last(storage)>> \o string)

Stack_pop_string(storage, terminator) == Stack_pop_string_loop(storage, terminator, <<>>)

(* floor(log2(n)) for n >= 1. *)
RECURSIVE Log2Floor(_)
Log2Floor(n) == IF n < 2 THEN 0 ELSE 1 + Log2Floor(n \div 2)

(* StringIO::read_symbol: EOT at the end of the input. *)
EOT == 4

EFail(est, msg) == [est EXCEPT !.status = msg]

EPush(est, sym) == [est EXCEPT !.stack = Append(est.stack, sym)]

EPop(est) == [est EXCEPT !.stack = Front(est.stack)]

(***************************************************************************)
(* Emmental: State::interpret_symbol and State::step_primop                *)
(***************************************************************************)

RECURSIVE interpret_symbol(_, _)
RECURSIVE step_primop(_, _)

(* PrimOp::Digit(d), without the wrapping of the multiplication and the
   addition. *)
step_Digit_unwrapped(est, d) ==
    IF est.stack = <<>> THEN EFail(est, "stack is empty")
    ELSE EPush(EPop(est), Last(est.stack) * 10 + d)

step_Digit(est, d) ==
    IF est.stack = <<>> THEN EFail(est, "stack is empty")
    ELSE EPush(EPop(est), (((Last(est.stack) * 10) % 256) + d) % 256)

(* PrimOp::Add checking for both operands before it pops either. *)
step_Add_checked_first(est) ==
    IF Len(est.stack) < 2 THEN EFail(est, "stack is empty")
    ELSE EPush(EPop(EPop(est)),
               (est.stack[Len(est.stack) - 1] + est.stack[Len(est.stack)]) % 256)

(* PrimOp::Add with a plain addition in place of wrapping_add. *)
step_Add_unwrapped(est) ==
    IF est.stack = <<>> THEN EFail(est, "stack is empty")
    ELSE IF Len(est.stack) = 1 THEN EFail(EPop(est), "stack is empty")
    ELSE EPush(EPop(EPop(est)), est.stack[Len(est.stack) - 1] + est.stack[Len(est.stack)])

step_Add(est) ==
    IF est.stack = <<>> THEN EFail(est, "stack is empty")
    ELSE IF Len(est.stack) = 1 THEN EFail(EPop(est), "stack is empty")
    ELSE LET rhs == est.stack[Len(est.stack)]
             lhs == est.stack[Len(est.stack) - 1]
         IN  EPush(EPop(EPop(est)), (lhs + rhs) % 256)

step_Sub(est) ==
    IF est.stack = <<>> THEN EFail(est, "stack is empty")
    ELSE IF Len(est.stack) = 1 THEN EFail(EPop(est), "stack is empty")
    ELSE LET rhs == est.stack[Len(est.stack)]
             lhs == est.stack[Len(est.stack) - 1]
         IN  EPush(EPop(EPop(est)), (lhs + 256 - rhs) % 256)

step_Log2(est) ==
    IF est.stack = <<>> THEN EFail(est, "stack is empty")
    ELSE EPush(EPop(est), IF Last(est.stack) = 0 THEN 8 ELSE Log2Floor(Last(est.stack)))

step_Output(est) ==
    IF est.stack = <<>> THEN EFail(est, "stack is empty")
    ELSE [EPop(est) EXCEPT !.output = Append(est.output, Last(est.stack))]

step_Input(est) ==
    IF est.input = <<>> THEN EPush(est, EOT)
    ELSE EPush([est EXCEPT !.input = Tail(est.input)], Head(est.input))

step_Enqueue(est) ==
    IF est.stack = <<>> THEN EFail(est, "stack is empty")
    ELSE [est EXCEPT !.queue = Append(est.queue, Last(est.stack))]

(* PrimOp::Dequeue taking the byte enqueued last (pop_back). *)
step_Dequeue_back(est) ==
    IF est.queue = <<>> THEN EFail(est, "queue is empty")
    ELSE EPush([est EXCEPT !.queue = Front(est.queue)], Last(est.queue))

step_Dequeue(est) ==
    IF est.queue = <<>> THEN EFail(est, "queue is empty")
    ELSE EPush([est EXCEPT !.queue = Tail(est.queue)], Head(est.queue))

step_Duplicate(est) ==
    IF est.stack = <<>> THEN EFail(est, "stack is empty")
    ELSE EPush(est, Last(est.stack))

(* PrimOp::Supplant with running programs reading the bound body in place:
   an activation of the old body of the symbol goes on in the new one. *)
step_Supplant_in_place(est) ==
    IF est.stack = <<>> THEN EFail(est, "stack is empty")
    ELSE LET sym == Last(est.stack)
             r == Stack_pop_string(Front(est.stack), 59)
             old == lookup(est.interpreter, sym)
         IN  IF r.err # "Ok" THEN EFail([est EXCEPT !.stack = r.storage], r.err)
             ELSE [est EXCEPT !.stack = r.storage,
                              !.interpreter = supplant(est.interpreter, sym, EProgram(r.val)),
                              !.calls = [k \in 1..Len(est.calls) |->
                                  IF k > 1 /\ old.tag = "Program"
                                       /\ est.calls[k].contents = old.body
                                  THEN [est.calls[k] EXCEPT !.contents = r.val]
                                  ELSE est.calls[k]]]

step_Supplant(est) ==
    IF est.stack = <<>> THEN EFail(est, "stack is empty")
    ELSE LET sym == Last(est.stack)
             r == Stack_pop_string(Front(est.stack), 59)
         IN  IF r.err # "Ok" THEN EFail([est EXCEPT !.stack = r.storage], r.err)
             ELSE [est EXCEPT !.stack = r.storage,
                              !.interpreter = supplant(est.interpreter, sym, EProgram(r.val))]

step_Eval(est) ==
    IF est.stack = <<>> THEN EFail(est, "stack is empty")
    ELSE interpret_symbol(Last(est.stack), EPop(est))

(* State::step_primop. *)
step_primop(primop, est) ==
    CASE primop.p = "Nul" -> EPush(est, 0)
      [] primop.p = "Semicolon" -> EPush(est, 59)
      [] primop.p = "Digit" -> step_Digit(est, primop.d)
      [] primop.p = "Add" -> step_Add(est)
      [] primop.p = "Sub" -> step_Sub(est)
      [] primop.p = "Log2" -> step_Log2(est)
      [] primop.p = "Output" -> step_Output(est)
      [] primop.p = "Input" -> step_Input(est)
      [] primop.p = "Enqueue" -> step_Enqueue(est)
      [] primop.p = "Dequeue" -> step_Dequeue(est)
      [] primop.p = "Duplicate" -> step_Duplicate(est)
      [] primop.p = "Supplant" -> step_Supplant(est)
      [] primop.p = "Eval" -> step_Eval(est)

(* interpret_symbol with the interpreter captured when an activation starts:
   the symbols of a body are looked up in that snapshot. *)
interpret_symbol_captured(sym, est) ==
    LET frame == est.calls[Len(est.calls)]
        env == IF "env" \in DOMAIN frame THEN frame.env ELSE est.interpreter
        operation == lookup(env, sym)
    IN  IF operation.tag = "Primitive" THEN step_primop(operation.primop, est)
        ELSE IF operation.tag = "Program"
             THEN [est EXCEPT !.calls =
                      Append(est.calls, [contents |-> operation.body, position |-> 0,
                                         env |-> est.interpreter])]
        ELSE est

(* State::interpret_symbol: the operation is looked up and cloned; a Program
   operation starts a new activation of State::run over its body. *)
interpret_symbol(sym, est) ==
    LET operation == lookup(est.interpreter, sym)
    IN  IF operation.tag = "Primitive" THEN step_primop(operation.primop, est)
        ELSE IF operation.tag = "Program"
             THEN [est EXCEPT !.calls = Append(est.calls, Program_new(operation.body))]
        ELSE est

(***************************************************************************)
(* Emmental: run_with_input and State::run                                 *)
(***************************************************************************)

(* #0#10#33#100#108#114#111#119#32#44#111#108#108#101#72............... *)
HelloWorld ==
    <<35, 48, 35, 49, 48, 35, 51, 51, 35, 49, 48, 48, 35, 49, 48, 56,
      35, 49, 49, 52, 35, 49, 49, 49, 35, 49, 49, 57, 35, 51, 50, 35,
      52, 52, 35, 49, 49, 49, 35, 49, 48, 56, 35, 49, 48, 56, 35, 49,
      48, 49, 35, 55, 50, 46, 46, 46, 46, 46, 46, 46, 46, 46, 46, 46,
      46, 46, 46, 46>>

(* ;#58#126#63#36!;#46#36#!;#0#1!;#0#2!;#0#3!;#0#4!;#0#5!;#0#6!;#0#7!
   #0#33#100#108#114#111#119#32#44#111#108#108#101#72$ *)
HelloWorldFancy ==
    <<59, 35, 53, 56, 35, 49, 50, 54, 35, 54, 51, 35, 51, 54, 33, 59,
      35, 52, 54, 35, 51, 54, 35, 33, 59, 35, 48, 35, 49, 33, 59, 35,
      48, 35, 50, 33, 59, 35, 48, 35, 51, 33, 59, 35, 48, 35, 52, 33,
      59, 35, 48, 35, 53, 33, 59, 35, 48, 35, 54, 33, 59, 35, 48, 35,
      55, 33, 35, 48, 35, 51, 51, 35, 49, 48, 48, 35, 49, 48, 56, 35,
      49, 49, 52, 35, 49, 49, 49, 35, 49, 49, 57, 35, 51, 50, 35, 52,
      52, 35, 49, 49, 49, 35, 49, 48, 56, 35, 49, 48, 56, 35, 49, 48,
      49, 35, 55, 50, 36>>

(* "Hello, world!\n\0", what both tests expect. *)
HelloWorldOutput ==
    <<72, 101, 108, 108, 111, 44, 32, 119, 111, 114, 108, 100, 33, 10, 0>>

(* Longest run of decimal digits after a '#'. *)
MaxDigits == 3

(* Most values pushed by a program that pushes and then outputs. *)
MaxVals == 3

DigitSymbols == DIGIT_OFFSET..(DIGIT_OFFSET + 9)

(* '#' followed by decimal digits. *)
DigitProgram(digits) == <<35>> \o digits

(* The decimal digits of n, as symbols. *)
RECURSIVE Decimal(_)
Decimal(n) ==
    IF n < 10 THEN <<DIGIT_OFFSET + n>>
    ELSE Append(Decimal(n \div 10), DIGIT_OFFSET + (n % 10))

RECURSIVE PushAll(_)
PushAll(vals) ==
    IF vals = <<>> THEN <<>>
    ELSE DigitProgram(Decimal(Head(vals))) \o PushAll(Tail(vals))

(* A program that pushes vals, '#' and the decimal digits for each, and then
   executes one Output per value. *)
PushThenOutput(vals) == PushAll(vals) \o [i \in 1..Len(vals) |-> 46]

PushedValues == SeqsUpTo({0, 72, 255}, MaxVals)

PushPrograms == [vals \in PushedValues |-> PushThenOutput(vals)]

(* Operands of the arithmetic programs. *)
ArithValues == {0, 1, 72, 255}

ArithCases == ArithValues \X ArithValues \X {43, 45}

(* '#' a '#' b, then '+' or '-', then '.'; #255#1+. is the case <<255, 1, 43>>. *)
ArithPrograms == [c \in ArithCases |-> PushAll(<<c[1], c[2]>>) \o <<c[3], 46>>]

(* Bodies handed to Supplant, as the bytes pushed above the ';'. *)
SupplantBodies == SeqsUpTo({35, 46, 59}, 2)

SupplantCases == {0, 1} \X SupplantBodies

(* With c[1] = 1 the program starts with #7^ (7 on the stack and in the
   queue); then ';', the bytes of the body, #65 and '!', which binds 'A' to
   the body, and at last 'A' itself. *)
SupplantPrograms ==
    [c \in SupplantCases |->
        (IF c[1] = 1 THEN <<35, 55, 94>> ELSE <<>>)
            \o <<59>> \o PushAll(c[2]) \o <<35, 54, 53, 33, 65>>]

(* ;#66#65! ;#46#66! #7 A : 'A' is bound to the body B before 'B' is bound
   to the body '.', and then 7 is pushed and 'A' dispatched. *)
ProgLateBinding ==
    <<59, 35, 54, 54, 35, 54, 53, 33, 59, 35, 52, 54, 35, 54, 54, 33, 35, 55, 65>>

(* ;#33#66#65! #7 ;#46#66 A : 'A' is bound to the body !B; with 7, ';',
   '.' and 'B' on the stack, 'A' first binds 'B' and then dispatches it. *)
ProgRebindInBody ==
    <<59, 35, 51, 51, 35, 54, 54, 35, 54, 53, 33, 35, 55, 59, 35, 52, 54,
      35, 54, 54, 65>>

(* #1+#2 : Add with one element on the stack, and two more symbols. *)
ProgAddOne == <<35, 49, 43, 35, 50>>

(* #1#2#65!#3 : Supplant with no ';' on the stack, and two more symbols. *)
ProgSupplantNoSemicolon == <<35, 49, 35, 50, 35, 54, 53, 33, 35, 51>>

(* '#' v '^' for each value, in order. *)
RECURSIVE EnqueueAll(_)
EnqueueAll(vals) ==
    IF vals = <<>> THEN <<>>
    ELSE DigitProgram(Decimal(Head(vals))) \o <<94>> \o EnqueueAll(Tail(vals))

(* A program that pushes and enqueues each of vals and then executes one
   Dequeue more than there are values. *)
QueuePrograms ==
    [vals \in PushedValues |-> EnqueueAll(vals) \o [i \in 1..(Len(vals) + 1) |-> 118]]

(* ^#1 : Enqueue on the empty stack. *)
ProgEnqueueEmpty == <<94, 35, 49>>

(* ;#33#46#65! #7 ;#35#65 A A . : 'A' is bound to the body !. ; with 7,
   ';', '#' and 'A' on the stack, 'A' rebinds itself to the body # and then
   executes the '.' of its old body; the second 'A' runs the new body. *)
ProgRebindSelf ==
    <<59, 35, 51, 51, 35, 52, 54, 35, 54, 53, 33, 35, 55, 59, 35, 51, 53,
      35, 54, 53, 65, 65, 46>>

(* Most symbols after the #63 of a program made of Eval, Duplicate, Enqueue
   and Dequeue. *)
MaxEvalLen == 3

(* #63, which pushes '?', followed by symbols among : ? ^ v . *)
EvalPrograms == {<<35, 54, 51>> \o t : t \in SeqsUpTo({58, 63, 94, 118}, MaxEvalLen)}

EmmentalPrograms ==
    {HelloWorld, HelloWorldFancy}
        \cup {DigitProgram(ds) : ds \in SeqsUpTo(DigitSymbols, MaxDigits)}
        \cup {PushPrograms[vals] : vals \in PushedValues}
        \cup {ArithPrograms[c] : c \in ArithCases}
        \cup {SupplantPrograms[c] : c \in SupplantCases}
        \cup {ProgLateBinding, ProgRebindInBody}
        \cup {ProgAddOne, ProgSupplantNoSemicolon}
        \cup {QueuePrograms[vals] : vals \in PushedValues}
        \cup {ProgEnqueueEmpty, ProgRebindSelf}
        \cup EvalPrograms

(* The Mascarpone variables of a run of Emmental alone. *)
MascarponeIdle ==
    /\ stack = NewState.stack
    /\ interpreter = NewState.interpreter
    /\ output = NewState.output
    /\ status = NewState.status
    /\ dispatched = <<>>
    /\ arg = <<>>
    /\ result = <<>>
    /\ phase = "emmental"

(* run_with_input(program, b""): State::new(Interpreter::default(), io) and
   the outermost State::run about to start. *)
InitEmmental ==
    /\ MascarponeIdle
    /\ e_program \in EmmentalPrograms
    /\ e_calls = <<Program_new(e_program)>>
    /\ e_stack = <<>>
    /\ e_queue = <<>>
    /\ e_interpreter = DefaultInterpreter
    /\ e_input = <<>>
    /\ e_output = <<>>
    /\ e_status = "running"
    /\ e_dispatched = <<>>

EmmentalState ==
    [stack |-> e_stack, queue |-> e_queue, interpreter |-> e_interpreter,
     input |-> e_input, output |-> e_output, status |-> e_status, calls |-> e_calls]

(* Program::advance as an iterator polled once per activation
   (for &sym in program.next()): nothing is left after the first symbol. *)
advance_once(calls) == [calls EXCEPT ![Len(calls)].position = Len(calls[Len(calls)].contents)]

(* Program::advance on the innermost activation: the position moves on. *)
advance(calls) == [calls EXCEPT ![Len(calls)].position = @ + 1]

(* The symbol Program::advance is about to return, when there is one. *)
HasNext == e_calls # <<>> /\ Last(e_calls).position < Len(Last(e_calls).contents)

NextSymbol == Last(e_calls).contents[Last(e_calls).position + 1]

(* One iteration of the loop of State::run: advance returns a symbol and
   interpret_symbol dispatches it; an error ends every activation. *)
Run_Dispatch ==
    /\ e_status = "running"
    /\ HasNext
    /\ LET r == interpret_symbol(NextSymbol, [EmmentalState EXCEPT !.calls = advance(e_calls)])
       IN  /\ e_calls' = r.calls
           /\ e_stack' = r.stack
           /\ e_queue' = r.queue
           /\ e_interpreter' = r.interpreter
           /\ e_input' = r.input
           /\ e_output' = r.output
           /\ e_status' = r.status
    /\ e_dispatched' = IF Len(e_calls) = 1 THEN Append(e_dispatched, NextSymbol)
                                            ELSE e_dispatched
    /\ UNCHANGED <<mvars, svars, e_program>>

(* advance returns None in an activation started by interpret_symbol: that
   State::run returns Ok(()) to the loop that dispatched the symbol. *)
Run_Return ==
    /\ e_status = "running"
    /\ Len(e_calls) > 1
    /\ ~HasNext
    /\ e_calls' = Front(e_calls)
    /\ UNCHANGED <<mvars, svars, e_program, e_stack, e_queue, e_interpreter, e_input,
                   e_output, e_status, e_dispatched>>

(* A loop of State::run that polls advance again after it returned None:
   the outermost activation never returns. *)
Run_Finish_spin ==
    /\ e_status = "running"
    /\ Len(e_calls) = 1
    /\ ~HasNext
    /\ UNCHANGED vars

(* advance returns None in the outermost State::run: run_with_io returns
   Ok(state). *)
Run_Finish ==
    /\ e_status = "running"
    /\ Len(e_calls) = 1
    /\ ~HasNext
    /\ e_calls' = <<>>
    /\ e_status' = "done"
    /\ UNCHANGED <<mvars, svars, e_program, e_stack, e_queue, e_interpreter, e_input,
                   e_output, e_dispatched>>

NextEmmental == Run_Dispatch \/ Run_Return \/ Run_Finish

SpecEmmental == InitEmmental /\ [][NextEmmental]_vars

(* State::run is sequential code that keeps running: a step that can be
   taken is taken. *)
SpecEmmentalFair == SpecEmmental /\ WF_vars(NextEmmental)

(***************************************************************************)
(* Both dialects: a run of Mascarpone or a run of Emmental                 *)
(***************************************************************************)

InitDialects == Init \/ InitEmmental

NextDialects == Next \/ NextEmmental

SpecDialects == InitDialects /\ [][NextDialects]_vars

(***************************************************************************)
(* Properties                                                              *)
(***************************************************************************)

DelimiterFree(s) ==
    \A i \in 1..Len(s) : s[i] \notin {STRING_LEFT_DELIM, STRING_RIGHT_DELIM}

Symbols(s) == [i \in 1..Len(s) |-> ElemSymbol(s[i])]

IsInitial(interp) == interp.tag = "Defined" /\ interp.variant.v = "Initial"

(* C1: for every symbol sequence s containing neither '[' nor ']',
   push_string(s) followed by pop_string() on an otherwise empty stack
   succeeds and returns exactly s. *)
C1_StringRoundTrip ==
    (phase = "popped" /\ DelimiterFree(arg)) => (status = "ok" /\ result = arg)

C1_Witness ==
    phase = "popped" /\ arg = <<"a", "b">> /\ result = <<"a", "b">> /\ status = "ok"

(* C2: when the current interpreter is Initial and '[' is dispatched, the
   '[' marker is pushed (and nothing else), and the current interpreter
   becomes a fresh QuoteString interpreter whose parent is the interpreter
   that was current before the step. *)
C2_QuoteStringEntry ==
    [][(phase = "run" /\ IsInitial(interpreter)
            /\ dispatched' = Append(dispatched, STRING_LEFT_DELIM))
        => /\ status' = "ok"
           /\ stack' = Append(stack, ElemSymbol(STRING_LEFT_DELIM))
           /\ interpreter' = set_parent(quote_string, interpreter)]_vars

(* C3: for every delimiter-free w, running '[' w ']' from the initial state
   leaves the stack holding exactly '[', w in textual order, ']' on top, and
   a following pop_string returns w. *)
C3_BalancedQuoteString ==
    (/\ phase = "run"
     /\ Len(dispatched) >= 2
     /\ Head(dispatched) = STRING_LEFT_DELIM
     /\ Last(dispatched) = STRING_RIGHT_DELIM
     /\ DelimiterFree(SubSeq(dispatched, 2, Len(dispatched) - 1)))
    => /\ status = "ok"
       /\ stack = Symbols(dispatched)
       /\ pop_string(CurrentState).err = "Ok"
       /\ pop_string(CurrentState).val = SubSeq(dispatched, 2, Len(dispatched) - 1)

(* C4: for every symbol X, running the quote character followed by X from
   the initial state leaves exactly one element on the stack, the Symbol X,
   and the current interpreter is again the one current before the quote. *)
C4_QuoteOneSymbol ==
    (phase = "run" /\ Len(dispatched) = 2 /\ dispatched[1] = "'")
    => /\ status = "ok"
       /\ stack = <<ElemSymbol(dispatched[2])>>
       /\ interpreter = initial

(* Whether q is one quoted string: it opens with '[' and the nesting first
   returns to zero at its last symbol. *)
RECURSIVE Depth(_)
Depth(q) ==
    IF q = <<>> THEN 0
    ELSE Depth(Front(q)) + (IF Last(q) = STRING_LEFT_DELIM THEN 1 ELSE 0)
                         - (IF Last(q) = STRING_RIGHT_DELIM /\ Depth(Front(q)) > 0 THEN 1 ELSE 0)

IsQuoted(q) ==
    /\ Len(q) >= 2
    /\ Depth(q) = 0
    /\ Last(q) = STRING_RIGHT_DELIM
    /\ \A i \in 1..(Len(q) - 1) : Depth(SubSeq(q, 1, i)) > 0

(* C5: after a (possibly nested) quoted string has been captured, each
   Output pops the top symbol and writes it, so the output is the captured
   symbols, delimiters included, in reverse textual order; the program
   [o[ll]eh] followed by nine '.' runs to completion and outputs ]he]ll[o[ . *)
C5_QuotedOutput ==
    /\ \A n \in 2..Len(dispatched) :
           (/\ phase = "run"
            /\ IsQuoted(SubSeq(dispatched, 1, n))
            /\ Len(dispatched) > n
            /\ Len(dispatched) - n <= n
            /\ \A i \in (n + 1)..Len(dispatched) : dispatched[i] = ".")
           => /\ status = "ok"
              /\ output = SubSeq(Reverse(SubSeq(dispatched, 1, n)), 1, Len(dispatched) - n)
              /\ stack = Symbols(SubSeq(dispatched, 1, 2 * n - Len(dispatched)))
    /\ (phase = "run" /\ dispatched = ProgQuoteNested)
           => output = <<"]", "h", "e", "]", "l", "l", "[", "o", "[">>

(* The state after each symbol of body has been dispatched, in order,
   through the current interpreter of st. *)
RECURSIVE RunBody(_, _)
RunBody(body, st) ==
    IF body = <<>> \/ st.status # "ok" THEN st
    ELSE RunBody(Tail(body), interpret(st.interpreter, Head(body), st))

(* C6: Perform of a Program operation dispatches every symbol of the body,
   in order, through the operation's captured interpreter while that
   interpreter is the current one, and once the body is exhausted the
   interpreter that was current before Perform is current again. *)
C6_PerformProgram ==
    [][(/\ phase = "run"
        /\ IsInitial(interpreter)
        /\ dispatched' = Append(dispatched, "!")
        /\ stack # <<>>
        /\ Last(stack).tag = "Operation"
        /\ Last(stack).op.tag = "Program")
        => LET op == Last(stack).op
               ran == RunBody(op.body,
                              [CurrentState EXCEPT !.stack = Front(stack),
                                                   !.interpreter = op.interp])
           IN  /\ status' = ran.status
               /\ stack' = ran.stack
               /\ ran.status = "ok" => interpreter' = interpreter]_vars

(* C7: in every state reachable by running a program from the initial
   state, the current interpreter is never the null interpreter. *)
C7_CurrentInterpreterDefined == phase = "run" => interpreter.tag # "Null"

(* C8: the fancy hello-world program, under the default interpreter and
   with empty input, terminates without error and its output is exactly
   "Hello, world!\n" followed by byte 0. *)
C8_HelloWorldFancy ==
    e_program = HelloWorldFancy
    => /\ e_status \in {"running", "done"}
       /\ e_status = "done" => e_output = HelloWorldOutput

(* C9: State::run dispatches every symbol of the program buffer exactly once
   at top level, in textual order, stopping only at exhaustion or at the
   first error, and Output writes the popped top of stack; so a program that
   pushes n values and then executes n Outputs writes the values in reverse
   push order and ends with an empty stack, as the plain hello world does. *)
C9_RunInOrder ==
    /\ IsPrefix(e_dispatched, e_program)
    /\ e_status = "done" => e_dispatched = e_program
    /\ e_status = "running" => ENABLED NextEmmental
    /\ \A vals \in PushedValues :
           e_program = PushPrograms[vals]
           => /\ e_status \in {"running", "done"}
              /\ e_status = "done" => (e_output = Reverse(vals) /\ e_stack = <<>>)
    /\ e_program = HelloWorld
           => /\ e_status \in {"running", "done"}
              /\ e_status = "done" => (e_output = HelloWorldOutput /\ e_stack = <<>>)

C9_Witness ==
    /\ e_program = HelloWorld
    /\ e_status = "done"
    /\ e_dispatched = HelloWorld
    /\ e_output = HelloWorldOutput

(* The number written by a run of decimal digit symbols. *)
RECURSIVE DigitsValue(_)
DigitsValue(ds) ==
    IF ds = <<>> THEN 0
    ELSE 10 * DigitsValue(Front(ds)) + (Last(ds) - DIGIT_OFFSET)

(* C10: Digit(d) pops the top byte s and pushes (10*s + d) mod 256, leaving
   the rest of the stack unchanged; so after '#' followed by the decimal
   digits of any n in 0..255 the top of stack equals n. *)
C10_DigitAccumulation ==
    /\ []((/\ e_dispatched # <<>>
           /\ Head(e_dispatched) = 35
           /\ Len(e_dispatched) > 1
           /\ \A i \in 2..Len(e_dispatched) : e_dispatched[i] \in DigitSymbols
           /\ DigitsValue(Tail(e_dispatched)) \in 0..255
           /\ Tail(e_dispatched) = Decimal(DigitsValue(Tail(e_dispatched))))
          => (e_status \in {"running", "done"}
              /\ e_stack = <<DigitsValue(Tail(e_dispatched))>>))
    /\ []((/\ e_dispatched # <<>>
           /\ Head(e_dispatched) = 35
           /\ \A i \in 2..Len(e_dispatched) : e_dispatched[i] \in DigitSymbols)
          => e_stack = <<DigitsValue(Tail(e_dispatched)) % 256>>)
    /\ [][\A d \in 0..9 :
            (/\ e_status = "running"
             /\ HasNext
             /\ lookup(e_interpreter, NextSymbol) = Primitive(Digit(d))
             /\ e_stack # <<>>)
            => /\ e_status' = "running"
               /\ e_stack' = Append(Front(e_stack), (10 * Last(e_stack) + d) % 256)]_vars

C10_Witness ==
    /\ e_dispatched = <<35, 49, 50, 51>>
    /\ e_stack = <<123>>

(* C11: with a below b on top of the stack, Add replaces the two with
   (a+b) mod 256 and Sub with (a-b) mod 256, the rest of the stack unchanged;
   a program that pushes a and b, adds or subtracts and outputs writes that
   one byte, and #255#1+. writes the single byte 0. *)
C11_ArithmeticWraps ==
    /\ [](\A c \in ArithCases :
            (e_program = ArithPrograms[c] /\ e_status = "done")
            => e_output = <<(IF c[3] = 43 THEN c[1] + c[2] ELSE c[1] - c[2]) % 256>>)
    /\ []((e_program = <<35, 50, 53, 53, 35, 49, 43, 46>> /\ e_status = "done")
            => e_output = <<0>>)
    /\ [][(/\ e_status = "running"
            /\ HasNext
            /\ Len(e_stack) >= 2
            /\ lookup(e_interpreter, NextSymbol) \in {Primitive(PrimOp("Add")), Primitive(PrimOp("Sub"))})
           => LET a == e_stack[Len(e_stack) - 1]
                  b == e_stack[Len(e_stack)]
                  add == lookup(e_interpreter, NextSymbol) = Primitive(PrimOp("Add"))
              IN  /\ e_status' = "running"
                  /\ e_stack' = Append(SubSeq(e_stack, 1, Len(e_stack) - 2),
                                       (IF add THEN a + b ELSE a - b) % 256)]_vars

C11_Witness ==
    /\ e_program = <<35, 50, 53, 53, 35, 49, 43, 46>>
    /\ e_status = "done"
    /\ e_output = <<0>>

(* C12: Supplant pops the symbol s, then pops bytes down to and including
   the nearest ';' below, and binds s to Program(body), body being the popped
   bytes without the ';' in their push order; every other binding, the queue
   and the stack below the ';' are unchanged. *)
C12_Supplant ==
    [][(/\ e_status = "running"
        /\ HasNext
        /\ lookup(e_interpreter, NextSymbol) = Primitive(PrimOp("Supplant"))
        /\ e_stack # <<>>
        /\ \E k \in 1..(Len(e_stack) - 1) : e_stack[k] = 59)
       => LET s == Last(e_stack)
              k == CHOOSE k \in 1..(Len(e_stack) - 1) :
                       /\ e_stack[k] = 59
                       /\ \A j \in (k + 1)..(Len(e_stack) - 1) : e_stack[j] # 59
              body == SubSeq(e_stack, k + 1, Len(e_stack) - 1)
          IN  /\ e_status' = "running"
              /\ e_stack' = SubSeq(e_stack, 1, k - 1)
              /\ e_queue' = e_queue
              /\ e_output' = e_output
              /\ lookup(e_interpreter', s) = EProgram(body)
              /\ \A t \in (0..255) \ {s} :
                     lookup(e_interpreter', t) = lookup(e_interpreter, t)]_vars

C12_Witness ==
    /\ e_program = SupplantPrograms[<<1, <<35, 46>>>>]
    /\ e_stack = <<7>>
    /\ e_queue = <<7>>
    /\ lookup(e_interpreter, 65) = EProgram(<<35, 46>>)
    /\ \A t \in (0..255) \ {65} : lookup(e_interpreter, t) = lookup(DefaultInterpreter, t)

(* C13: each symbol of the body of a Program operation is looked up in the
   interpreter as it is when that symbol is dispatched: a Supplant executed
   after the program was defined, or earlier in the same body, decides what
   the later body symbols do. *)
C13_DynamicBinding ==
    /\ []((e_program \in {ProgLateBinding, ProgRebindInBody})
            => /\ e_status \in {"running", "done"}
               /\ e_status = "done" => (e_output = <<7>> /\ e_stack = <<>>))
    /\ [][(e_status = "running" /\ HasNext /\ Len(e_calls) > 1)
           => LET operation == lookup(e_interpreter, NextSymbol)
              IN  /\ operation.tag = "Program"
                        => /\ e_calls' = Append(advance(e_calls), Program_new(operation.body))
                           /\ UNCHANGED <<e_stack, e_queue, e_interpreter, e_output, e_status>>
                  /\ operation.tag = "NoOp"
                        => /\ e_calls' = advance(e_calls)
                           /\ UNCHANGED <<e_stack, e_queue, e_interpreter, e_output, e_status>>
                  /\ operation = Primitive(PrimOp("Output")) /\ e_stack # <<>>
                        => /\ e_output' = Append(e_output, Last(e_stack))
                           /\ e_stack' = Front(e_stack)
                  /\ (/\ operation = Primitive(PrimOp("Supplant"))
                      /\ e_stack # <<>>
                      /\ \E k \in 1..(Len(e_stack) - 1) : e_stack[k] = 59)
                        => lookup(e_interpreter', Last(e_stack)).tag = "Program"]_vars

C13_Witness ==
    /\ e_program = ProgRebindInBody
    /\ e_status = "done"
    /\ e_output = <<7>>
    /\ lookup(e_interpreter, 66) = EProgram(<<46>>)

(* The canonical symbol -> intrinsic table. *)
CanonicalTable ==
    ("v" :> "Reify") @@ ("^" :> "Deify") @@ (">" :> "Extract") @@ ("<" :> "Install")
        @@ ("{" :> "GetParent") @@ ("}" :> "SetParent") @@ ("*" :> "Create")
        @@ ("@" :> "Expand") @@ ("!" :> "Perform") @@ ("0" :> "Null")
        @@ ("1" :> "Uniform") @@ ("[" :> "QuoteString") @@ ("'" :> "QuoteSymbol")
        @@ ("." :> "Output") @@ ("," :> "Input") @@ (":" :> "Dup")
        @@ ("$" :> "Discard") @@ ("/" :> "Swap")

(* The stack holds an interpreter and, on top of it, a symbol. *)
ExtractOperands(stk) ==
    /\ Len(stk) >= 2
    /\ stk[Len(stk) - 1].tag = "Interpreter"
    /\ stk[Len(stk)].tag = "Symbol"

(* C14: extract(sym) on an Initial interpreter returns Intrinsic(intrinsic)
   for each of the 18 (intrinsic, sym) pairs of the canonical table and
   Intrinsic(NoOp) for every other symbol; the 18 symbols are pairwise
   distinct, so that to_symbol(from_symbol(sym)) = sym. *)
C14_InitialTable ==
    /\ Cardinality(DOMAIN CanonicalTable) = 18
    /\ \A sym \in DOMAIN CanonicalTable : to_symbol(from_symbol(sym)) = sym
    /\ \A i, j \in 1..Len(SYMBOLS) : SYMBOLS[i][2] = SYMBOLS[j][2] => i = j
    /\ (/\ phase = "ops"
        /\ dispatched = <<">">>
        /\ ExtractOperands(arg)
        /\ IsInitial(arg[Len(arg) - 1].interp))
       => LET sym == arg[Len(arg)].sym
          IN  /\ status = "ok"
              /\ stack = Append(SubSeq(arg, 1, Len(arg) - 2),
                                ElemOperation(OpIntrinsic(
                                    IF sym \in DOMAIN CanonicalTable
                                    THEN CanonicalTable[sym] ELSE "NoOp")))

C14_Witness ==
    /\ phase = "ops"
    /\ dispatched = <<">">>
    /\ arg = <<ElemInterpreter(set_parent(initial, quote_symbol)), ElemSymbol("/")>>
    /\ stack = <<ElemOperation(OpIntrinsic("Swap"))>>

(* The stack holds an interpreter, an operation and, on top, a symbol. *)
InstallOperands(stk) ==
    /\ Len(stk) >= 3
    /\ stk[Len(stk) - 2].tag = "Interpreter"
    /\ stk[Len(stk) - 1].tag = "Operation"
    /\ stk[Len(stk)].tag = "Symbol"

(* C15: for an Initial or Mapping interpreter i, after install(s, op)
   succeeds extract(s) returns op and extract(t), for every t other than s,
   returns what it returned before; an Initial interpreter becomes a Mapping
   whose table is the 18-entry intrinsic table overlaid with s -> op and
   whose default is NoOp; the parent is unchanged. *)
C15_InstallExtract ==
    (/\ phase = "ops"
     /\ dispatched = <<"<">>
     /\ InstallOperands(arg)
     /\ arg[Len(arg) - 2].interp.tag = "Defined"
     /\ arg[Len(arg) - 2].interp.variant.v \in {"Initial", "Mapping"})
    => LET i == arg[Len(arg) - 2].interp
           op == arg[Len(arg) - 1].op
           s == arg[Len(arg)].sym
       IN  /\ status = "ok"
           /\ Len(stack) = Len(arg) - 2
           /\ SubSeq(stack, 1, Len(arg) - 3) = SubSeq(arg, 1, Len(arg) - 3)
           /\ Last(stack).tag = "Interpreter"
           /\ LET j == Last(stack).interp
              IN  /\ extract(j, s) = [err |-> "Ok", val |-> op]
                  /\ \A t \in (Alphabet \cup {"b"}) \ {s} : extract(j, t) = extract(i, t)
                  /\ j.parent = i.parent
                  /\ j.variant.v = "Mapping"
                  /\ IsInitial(i)
                        => /\ j.variant.default = OpIntrinsic("NoOp")
                           /\ j.variant.mapping =
                                  [x \in DOMAIN CanonicalTable \cup {s} |->
                                      IF x = s THEN op ELSE OpIntrinsic(CanonicalTable[x])]
                  /\ ~IsInitial(i) => j.variant.default = i.variant.default

C15_Witness ==
    /\ phase = "ops"
    /\ dispatched = <<"<">>
    /\ arg = <<ElemSymbol("b"), ElemInterpreter(set_parent(initial, quote_symbol)),
               ElemOperation(OpProgram(<<"a", "b">>, initial)), ElemSymbol("[")>>
    /\ Len(stack) = 2
    /\ extract(stack[2].interp, "[").val = OpProgram(<<"a", "b">>, initial)
    /\ extract(stack[2].interp, "/").val = OpIntrinsic("Swap")
    /\ stack[2].interp.parent = quote_symbol

IsMapping(interp) == interp.tag = "Defined" /\ interp.variant.v = "Mapping"

(* C16: for a Mapping interpreter, extract(s) returns the default operation
   whenever s is not a key of the table; so the interpreter pushed by Uniform
   after popping the operation o returns o from extract for every symbol. *)
C16_MappingDefault ==
    /\ (/\ phase = "ops"
         /\ dispatched = <<">">>
         /\ ExtractOperands(arg)
         /\ IsMapping(arg[Len(arg) - 1].interp)
         /\ arg[Len(arg)].sym \notin DOMAIN arg[Len(arg) - 1].interp.variant.mapping)
        => /\ status = "ok"
           /\ stack = Append(SubSeq(arg, 1, Len(arg) - 2),
                             ElemOperation(arg[Len(arg) - 1].interp.variant.default))
    /\ (/\ phase = "ops"
         /\ dispatched = <<"1">>
         /\ arg # <<>>
         /\ Last(arg).tag = "Operation")
        => /\ status = "ok"
           /\ Len(stack) = Len(arg)
           /\ Front(stack) = Front(arg)
           /\ Last(stack).tag = "Interpreter"
           /\ \A sym \in Alphabet \cup {"b"} :
                  extract(Last(stack).interp, sym) = [err |-> "Ok", val |-> Last(arg).op]

C16_Witness ==
    /\ phase = "ops"
    /\ dispatched = <<"1">>
    /\ arg = <<ElemOperation(OpProgram(<<"a", "b">>, initial))>>
    /\ stack = <<ElemInterpreter(uniform(OpProgram(<<"a", "b">>, initial)))>>
    /\ extract(stack[1].interp, "v").val = OpProgram(<<"a", "b">>, initial)

(* The tag of the element a typed pop accepts. *)
WantedTag(fn) ==
    CASE fn = "pop_symbol" -> "Symbol"
      [] fn = "pop_operation" -> "Operation"
      [] fn \in {"pop_interpreter", "pop_interpreter_nullable"} -> "Interpreter"

(* What the element carries. *)
Payload(elem) ==
    CASE elem.tag = "Symbol" -> elem.sym
      [] elem.tag = "Operation" -> elem.op
      [] elem.tag = "Interpreter" -> elem.interp

(* C17: pop_symbol, pop_operation, pop_interpreter and
   pop_interpreter_nullable fail with EmptyStack on an empty stack and with
   WrongElementType when the top element has another tag; pop_interpreter
   fails with NullInterpreter when the top element is the absent
   interpreter, and pop_interpreter_nullable returns it. *)
C17_TypedPops ==
    [][(/\ phase = "ops"
        /\ phase' = "popped"
        /\ result'.fn # "pop_string")
       => LET fn == result'.fn
          IN  IF stack = <<>>
              THEN result'.err = "EmptyStack" /\ status' = "EmptyStack"
              ELSE IF Last(stack).tag # WantedTag(fn)
              THEN result'.err = "WrongElementType" /\ status' = "WrongElementType"
              ELSE IF fn = "pop_interpreter" /\ Last(stack).interp = NullInterp
              THEN result'.err = "NullInterpreter" /\ status' = "NullInterpreter"
              ELSE /\ result'.err = "Ok"
                   /\ status' = "ok"
                   /\ result'.val = Payload(Last(stack))
                   /\ stack' = Front(stack)]_vars

C17_Witness ==
    /\ phase = "popped"
    /\ arg = <<ElemSymbol("b"), ElemInterpreter(NullInterp)>>
    /\ result = [fn |-> "pop_interpreter", err |-> "NullInterpreter", val |-> NoneValue]
    /\ status = "NullInterpreter"

(* C18: GetParent pops a defined interpreter i and pushes i's parent; when
   i has no parent (a freshly created Initial, Uniform or quote-mode
   interpreter) GetParent fails with NoParent and pushes nothing. *)
C18_GetParent ==
    [][(/\ phase = "ops"
        /\ dispatched' = Append(dispatched, "{")
        /\ stack # <<>>
        /\ Last(stack).tag = "Interpreter"
        /\ Last(stack).interp.tag = "Defined")
       => LET i == Last(stack).interp
          IN  IF i.parent = NullInterp
              THEN status' = "NoParent" /\ stack' = Front(stack)
              ELSE status' = "ok"
                   /\ stack' = Append(Front(stack), ElemInterpreter(i.parent))]_vars

(* The stack holds a properly delimited string: ']' on top and, below it,
   only symbols down to the '[' that matches it. *)
HoldsString(stk) ==
    \E k \in 1..Len(stk) :
        /\ \A n \in k..Len(stk) : stk[n].tag = "Symbol"
        /\ IsQuoted([n \in 1..(Len(stk) - k + 1) |-> stk[k + n - 1].sym])

(* C19: pop_string fails with MalformedString whenever the stack does not
   hold a properly delimited string: when the stack is empty, when the top
   element is not the symbol ']', and when a ']' is on top but no matching
   '[' at nesting depth 0 lies below it. *)
C19_MalformedString ==
    [][(/\ phase = "ops"
        /\ phase' = "popped"
        /\ result'.fn = "pop_string")
       => /\ stack = <<>> => result'.err = "MalformedString"
          /\ (stack # <<>> /\ Last(stack) # ElemSymbol(STRING_RIGHT_DELIM))
                => result'.err = "MalformedString"
          /\ (stack # <<>> /\ Last(stack) = ElemSymbol(STRING_RIGHT_DELIM)
                  /\ ~HoldsString(stack))
                => result'.err = "MalformedString"]_vars

(* The Program operation that stands for o: o itself, or for an intrinsic
   its canonical symbol with the Initial interpreter. *)
EquivalentProgram(o) ==
    IF o.tag = "Program" THEN o
    ELSE OpProgram(<<CHOOSE sym \in DOMAIN CanonicalTable : CanonicalTable[sym] = o.op>>,
                   initial)

(* C20: for every Operation o, Expand on a stack with o on top and then
   Create yields the original stack with o replaced by an equivalent
   Operation (same body symbols, same interpreter) and no stray element; and
   Create followed by Expand restores the quoted string and the interpreter
   that Create consumed. *)
C20_ExpandInvertsCreate ==
    /\ (/\ phase = "ops"
         /\ dispatched \in {<<"@">>, <<"@", "*">>}
         /\ arg # <<>>
         /\ Last(arg).tag = "Operation")
        => /\ status = "ok"
           /\ dispatched = <<"@", "*">>
                 => stack = Append(Front(arg), ElemOperation(EquivalentProgram(Last(arg).op)))
    /\ (phase = "ops" /\ dispatched = <<"*", "@">>)
        => (status = "ok" /\ stack = arg)

(* C21: a primitive or intrinsic that fails part-way leaves what it already
   popped popped, and no later symbol of the program is dispatched: Emmental
   Add on a one-element stack fails leaving the stack empty, Emmental
   Supplant with no ';' on the stack fails after draining the whole stack
   with the interpreter unchanged, and Mascarpone Swap on a one-element
   stack fails leaving the stack empty. *)
C21_NoRollback ==
    /\ [][(/\ e_status = "running"
            /\ HasNext
            /\ lookup(e_interpreter, NextSymbol) = Primitive(PrimOp("Add"))
            /\ Len(e_stack) = 1)
           => (e_status' \notin {"running", "done"} /\ e_stack' = <<>>)]_vars
    /\ [][(/\ e_status = "running"
            /\ HasNext
            /\ lookup(e_interpreter, NextSymbol) = Primitive(PrimOp("Supplant"))
            /\ e_stack # <<>>
            /\ \A k \in 1..(Len(e_stack) - 1) : e_stack[k] # 59)
           => /\ e_status' \notin {"running", "done"}
              /\ e_stack' = <<>>
              /\ e_interpreter' = e_interpreter]_vars
    /\ [][(/\ phase = "run"
            /\ IsInitial(interpreter)
            /\ dispatched' = Append(dispatched, "/")
            /\ Len(stack) = 1)
           => (status' = "EmptyStack" /\ stack' = <<>>)]_vars
    /\ [][(/\ e_status = "running" /\ e_status' \notin {"running", "done"})
           => (IsPrefix(e_stack', e_stack) /\ e_queue' = e_queue)]_vars
    /\ [][(/\ phase = "run" /\ status = "ok" /\ status' # "ok")
           => (IsPrefix(stack', stack) /\ interpreter' = interpreter)]_vars
    /\ [][(phase = "run" /\ status # "ok") => UNCHANGED mvars]_vars
    /\ [][(e_status \notin {"idle", "running"}) => UNCHANGED evars]_vars

C21_Witness ==
    /\ e_program = ProgAddOne
    /\ e_dispatched = <<35, 49, 43>>
    /\ e_status = "stack is empty"
    /\ e_stack = <<>>

(* The number of QuoteString interpreters at the head of the parent chain. *)
RECURSIVE QuoteLevels(_)
QuoteLevels(interp) ==
    IF interp.tag = "Defined" /\ interp.variant.v = "QuoteString"
    THEN 1 + QuoteLevels(interp.parent)
    ELSE 0

(* One plus the number of '[' minus the number of ']' in fed. *)
RECURSIVE Opened(_)
Opened(fed) ==
    IF fed = <<>> THEN 1
    ELSE Opened(Front(fed)) + (IF Last(fed) = STRING_LEFT_DELIM THEN 1 ELSE 0)
                            - (IF Last(fed) = STRING_RIGHT_DELIM THEN 1 ELSE 0)

(* C22: while the current interpreter is a QuoteString every dispatched
   symbol is pushed as a Symbol element and never fails; ']' makes the parent
   current, '[' makes a fresh QuoteString whose parent is the current one
   current, any other symbol leaves the current interpreter unchanged; so
   the number of QuoteString levels at the head of the parent chain equals
   one plus the number of '[' minus the number of ']' fed so far, until that
   count reaches zero. *)
C22_QuoteStringTransitions ==
    /\ [][(/\ phase = "run"
            /\ status = "ok"
            /\ QuoteLevels(interpreter) > 0
            /\ dispatched' # dispatched)
           => LET sym == Last(dispatched')
              IN  /\ status' = "ok"
                  /\ stack' = Append(stack, ElemSymbol(sym))
                  /\ sym = STRING_RIGHT_DELIM => interpreter' = interpreter.parent
                  /\ sym = STRING_LEFT_DELIM
                        => interpreter' = [tag |-> "Defined", parent |-> interpreter,
                                           variant |-> [v |-> "QuoteString"]]
                  /\ sym \notin {STRING_LEFT_DELIM, STRING_RIGHT_DELIM}
                        => interpreter' = interpreter]_vars
    /\ [](\A enter \in {EnterQuoteNoParent, EnterQuoteWithParent} :
            (/\ phase = "run"
             /\ IsPrefix(enter, dispatched)
             /\ \A n \in (Len(enter) + 1)..Len(dispatched) :
                    Opened(SubSeq(dispatched, Len(enter) + 1, n - 1)) > 0)
            => /\ status = "ok"
               /\ QuoteLevels(interpreter)
                     = Opened(SubSeq(dispatched, Len(enter) + 1, Len(dispatched))))

C22_Witness ==
    /\ phase = "run"
    /\ dispatched = EnterQuoteWithParent \o <<"[", "a">>
    /\ QuoteLevels(interpreter) = 2
    /\ interpreter.parent.parent = initial
    /\ Last(stack) = ElemSymbol("a")

(* Every ']' of b closes a '[' of b, and every '[' is closed. *)
Balanced(b) ==
    /\ Opened(b) = 1
    /\ \A n \in 1..Len(b) : Opened(SubSeq(b, 1, n)) >= 1

(* C23: for every bracket-balanced symbol sequence b, push_string(b)
   followed by pop_string returns b with its inner delimiters in order,
   removes exactly the elements from the outer '[' to the top and leaves
   every element below the outer '[' unchanged. *)
C23_NestedRoundTrip ==
    /\ [][(phase = "start" /\ phase' = "pushed")
           => stack' = stack \o <<ElemSymbol(STRING_LEFT_DELIM)>> \o Symbols(arg)
                            \o <<ElemSymbol(STRING_RIGHT_DELIM)>>]_vars
    /\ [][(phase = "pushed" /\ phase' = "popped" /\ Balanced(arg))
           => /\ status' = "ok"
              /\ result' = arg
              /\ stack' = SubSeq(stack, 1, Len(stack) - Len(arg) - 2)
              /\ stack' \in StringBases]_vars

C23_Witness ==
    /\ phase = "popped"
    /\ arg = <<"[", "a", "]">>
    /\ result = <<"[", "a", "]">>
    /\ stack = <<ElemSymbol("a"), ElemSymbol(STRING_RIGHT_DELIM)>>
    /\ status = "ok"

(* C24: each symbol of the program is dispatched through the interpreter
   that is current when that symbol is reached: after a step that replaces
   the current interpreter (Deify, quote-mode entry or exit) the very next
   symbol goes through the new interpreter. *)
C24_NoCachedInterpreter ==
    /\ [][(/\ phase = "run"
            /\ status = "ok"
            /\ dispatched' # dispatched)
           => LET sym == Last(dispatched')
              IN  /\ QuoteLevels(interpreter) > 0
                        => stack' = Append(stack, ElemSymbol(sym))
                  /\ (IsInitial(interpreter) /\ sym = "v")
                        => stack' = Append(stack, ElemInterpreter(interpreter))
                  /\ (IsMapping(interpreter) /\ interpreter.variant.mapping = <<>>
                          /\ interpreter.variant.default = OpIntrinsic("QuoteString"))
                        => stack' = stack \o <<ElemSymbol(STRING_LEFT_DELIM),
                                               ElemInterpreter(quote_string)>>
                  /\ interpreter.tag = "Null"
                        => (status' = "NullInterpreter" /\ stack' = stack)]_vars
    /\ []((phase = "run" /\ dispatched = <<"[", "^", "v">>)
            => stack = <<ElemSymbol("["), ElemSymbol("v")>>)
    /\ []((phase = "run" /\ dispatched = ProgQuoteViaDeify)
            => (status = "ok" /\ Last(stack) = ElemInterpreter(initial)))
    /\ []((phase = "run" /\ dispatched = ProgDeifyUniform)
            => (status = "ok"
                /\ stack = <<ElemSymbol("["), ElemInterpreter(quote_string)>>))

C24_Witness ==
    /\ phase = "run"
    /\ dispatched = ProgQuoteViaDeify
    /\ interpreter = initial
    /\ Last(stack) = ElemInterpreter(initial)
    /\ stack[Len(stack) - 1] = ElemSymbol(STRING_RIGHT_DELIM)

(* How many elements an intrinsic that works on the stack alone takes. *)
Taken(op) ==
    CASE op = "Reify" -> 0
      [] op = "Install" -> 3
      [] op \in {"SetParent", "Extract"} -> 2
      [] op \in {"GetParent", "Expand", "Uniform"} -> 1

(* C25: Reify pushes a copy of the current interpreter, and Install,
   SetParent, Extract, GetParent, Create, Expand and Uniform change only
   stack elements, so all of them leave the current interpreter unchanged;
   an interpreter captured in a Program operation by Create, or one already
   on the stack, is not changed by a later Install or SetParent applied to
   another copy of it. *)
C25_Snapshots ==
    /\ [][(/\ phase = "run"
            /\ status = "ok"
            /\ dispatched' # dispatched
            /\ extract(interpreter, Last(dispatched')).err = "Ok"
            /\ extract(interpreter, Last(dispatched')).val.tag = "Intrinsic"
            /\ extract(interpreter, Last(dispatched')).val.op \in
                   {"Reify", "Install", "SetParent", "Extract", "GetParent", "Create",
                    "Expand", "Uniform"})
           => LET op == extract(interpreter, Last(dispatched')).val.op
              IN  /\ interpreter' = interpreter
                  /\ op = "Reify" => stack' = Append(stack, ElemInterpreter(interpreter))
                  /\ (op = "Create" /\ status' = "ok") => IsPrefix(Front(stack'), stack)
                  /\ (op \notin {"Create", "Expand"} /\ status' = "ok")
                        => /\ Len(stack') = Len(stack) - Taken(op) + 1
                           /\ Front(stack') = SubSeq(stack, 1, Len(stack) - Taken(op))
                  /\ (op = "Expand" /\ status' = "ok") => IsPrefix(Front(stack), stack')
                  /\ (op = "SetParent" /\ status' = "ok")
                        => Last(stack') = ElemInterpreter(
                               set_parent(Last(stack).interp, stack[Len(stack) - 1].interp))]_vars
    /\ []((phase = "run" /\ dispatched = <<"v", "v", ":", "}">>)
            => stack = <<ElemInterpreter(initial),
                         ElemInterpreter(set_parent(initial, initial))>>)
    /\ []((phase = "run" /\ dispatched = ProgSnapshotInstall)
            => /\ status = "ok"
               /\ Len(stack) = 2
               /\ stack[1] = ElemInterpreter(initial)
               /\ IsMapping(stack[2].interp))
    /\ []((phase = "run" /\ dispatched = ProgSnapshotCreate)
            => /\ status = "ok"
               /\ stack[Len(stack) - 1] = ElemOperation(OpProgram(<<>>, initial))
               /\ Last(stack) = ElemInterpreter(set_parent(initial, initial)))

C25_Witness ==
    /\ phase = "run"
    /\ dispatched = ProgSnapshotCreate
    /\ interpreter = initial
    /\ stack[Len(stack) - 1] = ElemOperation(OpProgram(<<>>, initial))
    /\ Last(stack) = ElemInterpreter(set_parent(initial, initial))

(* C26: Enqueue appends a copy of the top of the stack to the back of the
   queue and leaves the stack unchanged (failing on an empty stack with the
   queue unchanged); Dequeue removes the front of the queue and pushes it, so
   that dequeued bytes appear in the order they were enqueued; Dequeue on an
   empty queue fails and leaves stack, queue and interpreter unchanged. *)
C26_QueueFifo ==
    /\ [][(/\ e_status = "running"
            /\ HasNext
            /\ lookup(e_interpreter, NextSymbol) = Primitive(PrimOp("Enqueue")))
           => IF e_stack # <<>>
              THEN /\ e_status' = "running"
                   /\ e_queue' = Append(e_queue, Last(e_stack))
                   /\ e_stack' = e_stack
              ELSE /\ e_status' \notin {"running", "done"}
                   /\ e_queue' = e_queue]_vars
    /\ [][(/\ e_status = "running"
            /\ HasNext
            /\ lookup(e_interpreter, NextSymbol) = Primitive(PrimOp("Dequeue")))
           => IF e_queue # <<>>
              THEN /\ e_status' = "running"
                   /\ e_stack' = Append(e_stack, Head(e_queue))
                   /\ e_queue' = Tail(e_queue)
              ELSE /\ e_status' \notin {"running", "done"}
                   /\ UNCHANGED <<e_stack, e_queue, e_interpreter>>]_vars
    /\ [](\A vals \in PushedValues :
            (e_program = QueuePrograms[vals] /\ e_status # "running")
            => /\ e_status = "queue is empty"
               /\ e_stack = vals \o vals
               /\ e_queue = <<>>
               /\ e_dispatched = e_program)

C26_Witness ==
    /\ e_program = QueuePrograms[<<0, 72, 255>>]
    /\ e_status = "queue is empty"
    /\ e_stack = <<0, 72, 255, 0, 72, 255>>
    /\ e_queue = <<>>

(* C27: for every Intrinsic operation that can be on the stack, the NoOp
   that Extract returns for an unbound symbol included, Expand completes
   without panicking and pushes a quoted string holding the intrinsic's
   canonical symbol followed by an Initial interpreter. *)
C27_ExpandTotal ==
    [][(/\ phase = "run"
        /\ status = "ok"
        /\ IsInitial(interpreter)
        /\ dispatched' = Append(dispatched, "@")
        /\ stack # <<>>
        /\ Last(stack).tag = "Operation"
        /\ Last(stack).op.tag = "Intrinsic")
       => /\ status' = "ok"
          /\ Len(stack') = Len(stack) + 3
          /\ SubSeq(stack', 1, Len(stack) - 1) = Front(stack)
          /\ stack'[Len(stack)] = ElemSymbol(STRING_LEFT_DELIM)
          /\ stack'[Len(stack) + 1].tag = "Symbol"
          /\ \A sym \in DOMAIN CanonicalTable :
                 CanonicalTable[sym] = Last(stack).op.op
                 => stack'[Len(stack) + 1] = ElemSymbol(sym)
          /\ stack'[Len(stack) + 2] = ElemSymbol(STRING_RIGHT_DELIM)
          /\ stack'[Len(stack) + 3] = ElemInterpreter(initial)]_vars

(* C28: when the body of a running Program operation executes a Supplant
   that rebinds the very symbol whose program is running, the remaining
   symbols of the old body are still dispatched to the end, and the new
   binding takes effect only for later dispatches of that symbol. *)
C28_BodiesInFlight ==
    /\ [][(e_status = "running" /\ e_status' = "running")
           => \A k \in 1..Len(e_calls) :
                  k <= Len(e_calls')
                  => /\ e_calls'[k].contents = e_calls[k].contents
                     /\ e_calls'[k].position >= e_calls[k].position]_vars
    /\ [][(e_status = "running" /\ e_status' = "running" /\ Len(e_calls') < Len(e_calls))
           => Last(e_calls).position = Len(Last(e_calls).contents)]_vars
    /\ []((e_program = ProgRebindSelf)
            => /\ e_status \in {"running", "done"}
               /\ e_status = "done"
                     => /\ e_output = <<7, 0>>
                        /\ e_stack = <<>>
                        /\ lookup(e_interpreter, 65) = EProgram(<<35>>))

C28_Witness ==
    /\ e_program = ProgRebindSelf
    /\ Len(e_calls) = 2
    /\ Last(e_calls) = [contents |-> <<33, 46>>, position |-> 1]
    /\ lookup(e_interpreter, 65) = EProgram(<<35>>)
    /\ e_stack = <<7>>

(* C29: every run of a finite program under the default interpreter in
   which Supplant is never executed terminates, by exhausting the program or
   by a propagated error (each Eval consumes one stack element before it
   dispatches); a run that does not terminate needs a Program binding, which
   only Supplant creates. *)
C29_Termination ==
    <>(e_status # "running" \/ e_interpreter # DefaultInterpreter)

C29_Witness ==
    /\ e_program = <<35, 54, 51, 58, 63>>
    /\ e_dispatched = e_program
    /\ e_interpreter = DefaultInterpreter
    /\ e_status = "stack is empty"
    /\ e_stack = <<>>

====
